---- MODULE Spec2Model ----
(***************************************************************************)
(* mathex: the numeric value (Number) and the term tree (Term) of          *)
(* src/math/terms.rs, with the caller of src/lib.rs.                       *)
(*                                                                         *)
(* Representation.                                                         *)
(*   An i64 fraction (Ratio<i64>) is a pair n/d of integers, kept reduced  *)
(*   with d > 0.  Class "wide" stands for the integer n * 2^32 (d = 1): an *)
(*   i64 that does not fit an i32.                                         *)
(*   An f64 is [cls, n, d]: cls "fin" is the double nearest to n/d; "inf", *)
(*   "ninf", "nan" are the IEEE specials; "wide" is the double n * 2^32;   *)
(*   "beyond" is a finite double this model does not track (a rounded      *)
(*   result).  Doubles with a power-of-two denominator are exact, so float *)
(*   arithmetic on them is exact; anything else that rounds is "beyond".   *)
(*   The outcome of an operation is a Number, or Panic(msg) when the code  *)
(*   panics, or Beyond when the value leaves the tracked range.  An        *)
(*   Option<Number> is NoneV or the Number itself.                         *)
(***************************************************************************)
EXTENDS Integers, Sequences, FiniteSets, TLC

VARIABLES pc, orig, term, subs, result, calc

vars == <<pc, orig, term, subs, result, calc>>

(* ---------------------------------------------------------------- bounds *)

\* largest numerator magnitude of the numeric inputs
MaxNumer == 6
\* largest denominator of the numeric inputs
MaxDenom == 5
\* largest number of operator nodes of a built term
MaxNodes == 2
\* largest numerator or denominator the model tracks exactly
TrackedMax == 32767

I32Max == 2147483647
I32Min == (-2147483647) - 1

(* --------------------------------------------------------------- helpers *)

Abs(i) == IF i < 0 THEN -i ELSE i

RECURSIVE GCD(_, _)
GCD(a, b) == IF b = 0 THEN a ELSE GCD(b, a % b)

RECURSIVE IsPow2(_)
IsPow2(d) == d = 1 \/ (d > 1 /\ d % 2 = 0 /\ IsPow2(d \div 2))

(* ------------------------------------------------------ values, outcomes *)

Rat(n, d) == [tag |-> "Rational", cls |-> "fin", n |-> n, d |-> d]
Wide(k) == [tag |-> "Rational", cls |-> "wide", n |-> k, d |-> 1]
Irr(f) == [tag |-> "Irrational", cls |-> f.cls, n |-> f.n, d |-> f.d]
Panic(msg) == [tag |-> "Panic", cls |-> msg, n |-> 0, d |-> 1]
Beyond == [tag |-> "Beyond", cls |-> "untracked", n |-> 0, d |-> 1]
NoneV == [tag |-> "None", cls |-> "none", n |-> 0, d |-> 1]

IsNumber(o) == o.tag \in {"Rational", "Irrational"}
IsPanic(o) == o.tag = "Panic"

Fin(n, d) == [cls |-> "fin", n |-> n, d |-> d]
FInf == [cls |-> "inf", n |-> 1, d |-> 0]
FNegInf == [cls |-> "ninf", n |-> -1, d |-> 0]
FNaN == [cls |-> "nan", n |-> 0, d |-> 0]
FWide(k) == [cls |-> "wide", n |-> k, d |-> 1]
FBeyond == [cls |-> "beyond", n |-> 0, d |-> 1]

\* the payload of an Irrational
FloatOf(v) == [cls |-> v.cls, n |-> v.n, d |-> v.d]

(* ------------------------------------------------------------ Ratio<i64> *)

\* Ratio::new: panics on a zero denominator, reduces, keeps the denominator positive
RatioNew(n, d) ==
    IF d = 0 THEN Panic("denominator == 0")
    ELSE LET g == GCD(Abs(n), Abs(d))
             s == IF d < 0 THEN -1 ELSE 1
             rn == s * (n \div g)
             rd == s * (d \div g)
         IN IF Abs(rn) > TrackedMax \/ rd > TrackedMax THEN Beyond ELSE Rat(rn, rd)

\* Ratio + Ratio
RatioAdd(a, b) ==
    IF a.cls = "wide" \/ b.cls = "wide" THEN Beyond
    ELSE RatioNew(a.n * b.d + b.n * a.d, a.d * b.d)

\* Ratio * Ratio
RatioMul(a, b) ==
    IF a.cls = "wide" \/ b.cls = "wide" THEN Beyond
    ELSE RatioNew(a.n * b.n, a.d * b.d)

\* Ratio::recip: panics on zero, keeps the denominator positive
RatioRecip(a) ==
    IF a.cls = "wide" THEN Beyond
    ELSE IF a.n = 0 THEN Panic("division by zero")
    ELSE IF a.n > 0 THEN Rat(a.d, a.n)
    ELSE Rat(-a.d, -a.n)

\* x^k for k >= 0 by repeated multiplication; -1 once the magnitude leaves the tracked range
RECURSIVE IntPowCap(_, _)
IntPowCap(x, k) ==
    IF k = 0 THEN 1
    ELSE LET r == IntPowCap(x, k - 1)
         IN IF r = -1 \/ r * x > TrackedMax THEN -1 ELSE r * x

\* numerator and denominator raised to k >= 0
RatioPowU(a, k) ==
    LET pn == IntPowCap(Abs(a.n), k)
        pd == IntPowCap(a.d, k)
    IN IF pn = -1 \/ pd = -1 THEN Beyond
       ELSE Rat(IF a.n < 0 /\ k % 2 = 1 THEN -pn ELSE pn, pd)

\* Ratio::pow(i32): 1 for exponent 0, the power of the reciprocal for a negative one
RatioPow(a, p) ==
    IF p = 0 THEN Rat(1, 1)
    ELSE IF a.cls = "wide" THEN Beyond
    ELSE IF p < 0
         THEN LET r == RatioRecip(a)
              IN IF IsPanic(r) THEN r ELSE RatioPowU(r, -p)
         ELSE RatioPowU(a, p)

\* a truncating cast in place of the checked conversion: n as i32
I32Truncating(f) ==
    IF f.cls = "wide" THEN [some |-> TRUE, val |-> 0]
    ELSE [some |-> TRUE, val |-> f.n]

\* i32::from_i64 of a fraction's numerator
I32FromI64(f) ==
    IF f.cls = "wide" THEN [some |-> FALSE, val |-> 0]
    ELSE IF f.n >= I32Min /\ f.n <= I32Max THEN [some |-> TRUE, val |-> f.n]
    ELSE [some |-> FALSE, val |-> 0]

(* ------------------------------------------------------------------- f64 *)

FIsZero(f) == f.cls = "fin" /\ f.n = 0
FIsOne(f) == f.cls = "fin" /\ f.n = 1 /\ f.d = 1
\* exactly representable: a power-of-two denominator
FExact(f) == f.cls = "fin" /\ IsPow2(f.d)
FSign(f) ==
    IF f.cls = "inf" THEN 1
    ELSE IF f.cls = "ninf" THEN -1
    ELSE IF f.n > 0 THEN 1 ELSE IF f.n < 0 THEN -1 ELSE 0
\* |f| compared with 1: -1 below, 0 equal, 1 above
FMagVsOne(f) ==
    IF f.cls # "fin" THEN 1
    ELSE IF Abs(f.n) < f.d THEN -1 ELSE IF Abs(f.n) = f.d THEN 0 ELSE 1
FOfRatio(r) == IF r.tag = "Rational" /\ r.cls = "fin" THEN Fin(r.n, r.d) ELSE FBeyond

\* f64 + f64
F64Add(x, y) ==
    IF x.cls = "beyond" \/ y.cls = "beyond" THEN FBeyond
    ELSE IF x.cls = "nan" \/ y.cls = "nan" THEN FNaN
    ELSE IF {x.cls, y.cls} = {"inf", "ninf"} THEN FNaN
    ELSE IF x.cls \in {"inf", "ninf"} THEN x
    ELSE IF y.cls \in {"inf", "ninf"} THEN y
    ELSE IF FIsZero(x) THEN y
    ELSE IF FIsZero(y) THEN x
    ELSE IF FExact(x) /\ FExact(y)
         THEN FOfRatio(RatioNew(x.n * y.d + y.n * x.d, x.d * y.d))
         ELSE FBeyond

\* f64 * f64
F64Mul(x, y) ==
    IF x.cls = "beyond" \/ y.cls = "beyond" THEN FBeyond
    ELSE IF x.cls = "nan" \/ y.cls = "nan" THEN FNaN
    ELSE IF x.cls \in {"inf", "ninf"} \/ y.cls \in {"inf", "ninf"}
         THEN IF FIsZero(x) \/ FIsZero(y) THEN FNaN
              ELSE IF FSign(x) * FSign(y) > 0 THEN FInf ELSE FNegInf
    ELSE IF FIsZero(x) \/ FIsZero(y) THEN Fin(0, 1)
    ELSE IF FIsOne(x) THEN y
    ELSE IF FIsOne(y) THEN x
    ELSE IF FExact(x) /\ FExact(y)
         THEN FOfRatio(RatioNew(x.n * y.n, x.d * y.d))
         ELSE FBeyond

\* 1.0 / v
F64Recip(v) ==
    IF v.cls = "beyond" THEN FBeyond
    ELSE IF v.cls = "nan" THEN FNaN
    ELSE IF v.cls \in {"inf", "ninf"} THEN Fin(0, 1)
    ELSE IF v.cls = "wide" THEN FBeyond
    ELSE IF v.n = 0 THEN FInf
    ELSE IF FExact(v) /\ IsPow2(Abs(v.n))
         THEN Fin(FSign(v) * v.d, Abs(v.n))
         ELSE FBeyond

\* f64::powf (C pow) on a finite nonzero base and a finite nonzero exponent
PowFFinite(x, y) ==
    IF x.cls = "wide" THEN FBeyond
    ELSE IF y.cls = "wide"
         THEN IF FMagVsOne(x) = 0 THEN Fin(1, 1)
              ELSE IF (FMagVsOne(x) > 0) = (y.n > 0) THEN FInf ELSE Fin(0, 1)
    ELSE IF y.d = 1
         THEN IF FExact(x)
              THEN LET r == RatioPow(Rat(x.n, x.d), y.n)
                   IN IF r.tag = "Rational" /\ IsPow2(r.d) THEN Fin(r.n, r.d) ELSE FBeyond
              ELSE FBeyond
    ELSE IF x.n < 0 THEN FNaN ELSE FBeyond

\* f64::powf (C pow)
PowF(x, y) ==
    IF FIsZero(y) \/ FIsOne(x) THEN Fin(1, 1)
    ELSE IF x.cls = "beyond" \/ y.cls = "beyond" THEN FBeyond
    ELSE IF x.cls = "nan" \/ y.cls = "nan" THEN FNaN
    ELSE IF y.cls \in {"inf", "ninf"}
         THEN IF FMagVsOne(x) = 0 THEN Fin(1, 1)
              ELSE IF (FMagVsOne(x) > 0) = (y.cls = "inf") THEN FInf ELSE Fin(0, 1)
    ELSE IF x.cls = "inf" THEN (IF y.n > 0 THEN FInf ELSE Fin(0, 1))
    ELSE IF x.cls = "ninf"
         THEN IF y.n < 0 THEN Fin(0, 1)
              ELSE IF y.cls = "fin" /\ y.d = 1 /\ y.n % 2 = 1 THEN FNegInf ELSE FInf
    ELSE IF FIsZero(x) THEN (IF y.n > 0 THEN Fin(0, 1) ELSE FInf)
    ELSE PowFFinite(x, y)

(* ---------------------------------------------------------------- Number *)

\* Ratio::to_f64: the nearest double
RatioToF64(r) == IF r.cls = "wide" THEN FWide(r.n) ELSE Fin(r.n, r.d)

\* impl From<Number> for f64
ToF64(v) == IF v.tag = "Rational" THEN RatioToF64(v) ELSE FloatOf(v)

\* Fraction::from_f64: the continued-fraction reconstruction, none for NaN and out of i64 range
RatioFromF64(f) ==
    IF f.cls = "fin" THEN Rat(f.n, f.d)
    ELSE IF f.cls = "wide" THEN Wide(f.n)
    ELSE IF f.cls = "beyond" THEN Beyond
    ELSE NoneV

\* impl From<f64> for Number
FromF64(f) ==
    LET fraction == RatioFromF64(f)
    IN IF fraction # NoneV THEN fraction ELSE Irr(f)

\* Number::pow_frac
PowFrac(frac1, frac2) ==
    IF frac2.d = 1
    THEN LET power == I32FromI64(frac2)
         IN IF power.some THEN RatioPow(frac1, power.val)
            ELSE Panic("is too powerful!")
    ELSE FromF64(PowF(RatioToF64(frac1), RatioToF64(frac2)))

\* Number::pow
NumPow(self, other) ==
    IF self.tag = "Rational"
    THEN IF other.tag = "Rational" THEN PowFrac(self, other)
         ELSE FromF64(PowF(RatioToF64(self), FloatOf(other)))
    ELSE FromF64(PowF(FloatOf(self), ToF64(other)))

\* Number::inverse
NumInverse(self) ==
    IF self.tag = "Rational" THEN RatioRecip(self)
    ELSE LET q == F64Recip(FloatOf(self))
         IN IF q.cls = "beyond" THEN Beyond ELSE Irr(q)

\* impl PartialEq for Number
NumEq(self, other) ==
    IF self.tag = "Rational" /\ other.tag = "Rational"
    THEN self.cls = other.cls /\ self.n = other.n /\ self.d = other.d
    ELSE IF self.tag = "Irrational" /\ other.tag = "Irrational"
    THEN self.cls # "nan" /\ FloatOf(self) = FloatOf(other)
    ELSE FALSE

\* impl Mul for Number
NumMul(self, rhs) ==
    IF self.tag = "Rational"
    THEN IF rhs.tag = "Rational" THEN RatioMul(rhs, self)
         ELSE FromF64(F64Mul(ToF64(self), FloatOf(rhs)))
    ELSE FromF64(F64Mul(FloatOf(self), ToF64(rhs)))

\* the Rational arm copied from Mul: Number::Rational(other * fraction)
NumAddCopiedMul(self, rhs) ==
    IF self.tag = "Rational"
    THEN IF rhs.tag = "Rational" THEN RatioMul(rhs, self)
         ELSE FromF64(F64Add(ToF64(self), FloatOf(rhs)))
    ELSE FromF64(F64Add(FloatOf(self), ToF64(rhs)))

\* the float arms wrapped as Number::Irrational(sum) with no conversion back
NumAddIrrational(self, rhs) ==
    IF self.tag = "Rational"
    THEN IF rhs.tag = "Rational" THEN RatioAdd(rhs, self)
         ELSE Irr(F64Add(ToF64(self), FloatOf(rhs)))
    ELSE Irr(F64Add(FloatOf(self), ToF64(rhs)))

\* impl Add for Number
NumAdd(self, rhs) ==
    IF self.tag = "Rational"
    THEN IF rhs.tag = "Rational" THEN RatioAdd(rhs, self)
         ELSE FromF64(F64Add(ToF64(self), FloatOf(rhs)))
    ELSE FromF64(F64Add(FloatOf(self), ToF64(rhs)))

(* ------------------------------------------------------------------ Term *)

Value(v) == [kind |-> "Value", v |-> v]
Variable(name) == [kind |-> "Variable", name |-> name]
Node(kind, lhs, rhs) == [kind |-> kind, lhs |-> lhs, rhs |-> rhs]

Kinds == {"Addition", "Multiplication", "Exponentation", "RootExtraction"}

\* the Exponentation arm with || for &&
RECURSIVE HasValueOr(_)
HasValueOr(t) ==
    IF t.kind = "Value" THEN TRUE
    ELSE IF t.kind = "Variable" THEN FALSE
    ELSE IF t.kind = "Exponentation" THEN HasValueOr(t.lhs) \/ HasValueOr(t.rhs)
    ELSE HasValueOr(t.lhs) /\ HasValueOr(t.rhs)

\* the Multiplication arm testing lhs twice
RECURSIVE HasValueLhsTwice(_)
HasValueLhsTwice(t) ==
    IF t.kind = "Value" THEN TRUE
    ELSE IF t.kind = "Variable" THEN FALSE
    ELSE IF t.kind = "Multiplication" THEN HasValueLhsTwice(t.lhs) /\ HasValueLhsTwice(t.lhs)
    ELSE HasValueLhsTwice(t.lhs) /\ HasValueLhsTwice(t.rhs)

\* Term::has_value
RECURSIVE HasValue(_)
HasValue(t) ==
    CASE t.kind = "Value" -> TRUE
      [] t.kind = "Variable" -> FALSE
      [] t.kind = "Addition" -> HasValue(t.lhs) /\ HasValue(t.rhs)
      [] t.kind = "Multiplication" -> HasValue(t.lhs) /\ HasValue(t.rhs)
      [] t.kind = "Exponentation" -> HasValue(t.lhs) /\ HasValue(t.rhs)
      [] t.kind = "RootExtraction" -> HasValue(t.lhs) /\ HasValue(t.rhs)

\* the RootExtraction arm leaving the degree as it was
RECURSIVE SubstituteSkipDegree(_, _, _)
SubstituteSkipDegree(t, name, value) ==
    IF t.kind = "Variable" THEN (IF t.name = name THEN Value(value) ELSE t)
    ELSE IF t.kind = "RootExtraction"
         THEN Node(t.kind, SubstituteSkipDegree(t.lhs, name, value), t.rhs)
    ELSE IF t.kind \in Kinds
         THEN Node(t.kind, SubstituteSkipDegree(t.lhs, name, value),
                   SubstituteSkipDegree(t.rhs, name, value))
    ELSE t

\* every Variable leaf replaced, whatever its name
RECURSIVE SubstituteAnyName(_, _, _)
SubstituteAnyName(t, name, value) ==
    IF t.kind = "Variable" THEN Value(value)
    ELSE IF t.kind \in Kinds
         THEN Node(t.kind, SubstituteAnyName(t.lhs, name, value),
                   SubstituteAnyName(t.rhs, name, value))
    ELSE t

\* Term::substitute
RECURSIVE Substitute(_, _, _)
Substitute(t, name, value) ==
    IF t.kind = "Variable"
    THEN IF t.name = name THEN Value(value) ELSE t
    ELSE CASE t.kind = "Addition" ->
                Node("Addition", Substitute(t.lhs, name, value), Substitute(t.rhs, name, value))
           [] t.kind = "Multiplication" ->
                Node("Multiplication", Substitute(t.lhs, name, value), Substitute(t.rhs, name, value))
           [] t.kind = "Exponentation" ->
                Node("Exponentation", Substitute(t.lhs, name, value), Substitute(t.rhs, name, value))
           [] t.kind = "RootExtraction" ->
                Node("RootExtraction", Substitute(t.lhs, name, value), Substitute(t.rhs, name, value))
           [] OTHER -> t

\* Option::unwrap
Unwrap(o) == IF o = NoneV THEN Panic("called Option::unwrap() on a None value") ELSE o

\* radicand.pow(&degree.inverse())
RootOf(radicand, degree) ==
    LET inv == NumInverse(degree)
    IN IF ~IsNumber(inv) THEN inv ELSE NumPow(radicand, inv)

\* a binary operator applied to two unwrapped operands, left first; a panic of an
\* operand is the panic of the whole
Then2(l, r, op) ==
    IF ~IsNumber(l) THEN l
    ELSE IF ~IsNumber(r) THEN r
    ELSE CASE op = "add" -> NumAdd(l, r)
           [] op = "mul" -> NumMul(l, r)
           [] op = "pow" -> NumPow(l, r)
           [] op = "root" -> RootOf(l, r)

\* the bound check looking at the root only
RECURSIVE GetValueShallow(_)
GetValueShallow(t) ==
    IF t.kind = "Variable" THEN NoneV
    ELSE IF t.kind = "Value" THEN t.v
    ELSE Then2(Unwrap(GetValueShallow(t.lhs)), Unwrap(GetValueShallow(t.rhs)),
               IF t.kind \in {"Addition", "Multiplication"} THEN "add"
               ELSE IF t.kind = "Exponentation" THEN "pow" ELSE "root")

\* the Multiplication arm multiplying
RECURSIVE GetValueMul(_)
GetValueMul(t) ==
    IF ~HasValue(t) THEN NoneV
    ELSE IF t.kind = "Value" THEN t.v
    ELSE IF t.kind = "Variable" THEN Panic("How did we get here? Variables don't have values.")
    ELSE Then2(Unwrap(GetValueMul(t.lhs)), Unwrap(GetValueMul(t.rhs)),
               IF t.kind = "Addition" THEN "add"
               ELSE IF t.kind = "Multiplication" THEN "mul"
               ELSE IF t.kind = "Exponentation" THEN "pow" ELSE "root")

\* Term::get_value
RECURSIVE GetValue(_)
GetValue(t) ==
    IF ~HasValue(t) THEN NoneV
    ELSE CASE t.kind = "Value" -> t.v
           [] t.kind = "Addition" ->
                Then2(Unwrap(GetValue(t.lhs)), Unwrap(GetValue(t.rhs)), "add")
           [] t.kind = "Multiplication" ->
                Then2(Unwrap(GetValue(t.lhs)), Unwrap(GetValue(t.rhs)), "add")
           [] t.kind = "Exponentation" ->
                Then2(Unwrap(GetValue(t.lhs)), Unwrap(GetValue(t.rhs)), "pow")
           [] t.kind = "RootExtraction" ->
                Then2(Unwrap(GetValue(t.lhs)), Unwrap(GetValue(t.rhs)), "root")
           [] t.kind = "Variable" -> Panic("How did we get here? Variables don't have values.")

(* ---------------------------------------------------------------- inputs *)

Names == {"x", "y"}

\* the f64 literals a caller converts into leaves: 2.0
LeafLits == {Fin(2, 1)}

\* the values a caller substitutes: 0, 0.0 and 1/2
SubstValues == {Rat(0, 1), Irr(Fin(0, 1)), Rat(1, 2)}

Leaves == {Variable(n) : n \in Names} \cup {Value(FromF64(f)) : f \in LeafLits}

RECURSIVE Nodes(_)
Nodes(t) == IF t.kind \in Kinds THEN 1 + Nodes(t.lhs) + Nodes(t.rhs) ELSE 0

Unset == [tag |-> "Unset", cls |-> "", n |-> 0, d |-> 1]

NoCalc == [op |-> "none", a |-> Unset, b |-> Unset, out |-> Unset]

(* --------------------------------------------------- the caller of a term *)

Init ==
    /\ pc = "build"
    /\ orig \in Leaves
    /\ term = orig
    /\ subs = [n \in Names |-> Unset]
    /\ result = Unset
    /\ calc = NoCalc

\* Addition(Box::new(term), Box::new(leaf)) and the other three node kinds
ComposeLeft(kind, leaf) ==
    /\ pc = "build"
    /\ Nodes(term) < MaxNodes
    /\ term' = Node(kind, term, leaf)
    /\ orig' = term'
    /\ UNCHANGED <<pc, subs, result, calc>>

\* Addition(Box::new(leaf), Box::new(term)) and the other three node kinds
ComposeRight(kind, leaf) ==
    /\ pc = "build"
    /\ Nodes(term) < MaxNodes
    /\ term' = Node(kind, leaf, term)
    /\ orig' = term'
    /\ UNCHANGED <<pc, subs, result, calc>>

\* term = term.substitute(name, value); each name is bound once
DoSubstitute(name, value) ==
    /\ pc \in {"build", "bind"}
    /\ subs[name] = Unset
    /\ term' = Substitute(term, name, value)
    /\ subs' = [subs EXCEPT ![name] = value]
    /\ pc' = "bind"
    /\ result' = Unset
    /\ UNCHANGED <<orig, calc>>

\* let value = term.get_value()
DoGetValue ==
    /\ pc \in {"build", "bind"}
    /\ result' = GetValue(term)
    /\ pc' = "done"
    /\ UNCHANGED <<orig, term, subs, calc>>

Next ==
    \/ \E kind \in Kinds, leaf \in Leaves : ComposeLeft(kind, leaf)
    \/ \E kind \in Kinds, leaf \in Leaves : ComposeRight(kind, leaf)
    \/ \E name \in Names, value \in SubstValues : DoSubstitute(name, value)
    \/ DoGetValue

Spec == Init /\ [][Next]_vars

(* ------------------------------------------- the numeric operations alone *)

NumRationals == {RatioNew(n, d) : n \in (-MaxNumer)..MaxNumer, d \in 1..MaxDenom}

NumFloats == {RatioToF64(r) : r \in NumRationals} \cup {FInf, FNegInf, FNaN}

Numbers == NumRationals \cup {Irr(f) : f \in NumFloats} \cup {Wide(1), Wide(-1)}

\* a + b, once, on operands drawn from Numbers
DoAdd ==
    /\ calc = NoCalc
    /\ \E a \in Numbers, b \in Numbers :
          calc' = [op |-> "add", a |-> a, b |-> b, out |-> NumAdd(a, b)]
    /\ UNCHANGED <<pc, orig, term, subs, result>>

\* a * b
DoMul ==
    /\ calc = NoCalc
    /\ \E a \in Numbers, b \in Numbers :
          calc' = [op |-> "mul", a |-> a, b |-> b, out |-> NumMul(a, b)]
    /\ UNCHANGED <<pc, orig, term, subs, result>>

\* a.pow(&b)
DoPow ==
    /\ calc = NoCalc
    /\ \E a \in Numbers, b \in Numbers :
          calc' = [op |-> "pow", a |-> a, b |-> b, out |-> NumPow(a, b)]
    /\ UNCHANGED <<pc, orig, term, subs, result>>

\* a.inverse()
DoInverse ==
    /\ calc = NoCalc
    /\ \E a \in Numbers :
          calc' = [op |-> "inverse", a |-> a, b |-> Unset, out |-> NumInverse(a)]
    /\ UNCHANGED <<pc, orig, term, subs, result>>

\* (f).into()
DoFromF64 ==
    /\ calc = NoCalc
    /\ \E f \in NumFloats :
          calc' = [op |-> "from_f64", a |-> Irr(f), b |-> Unset, out |-> FromF64(f)]
    /\ UNCHANGED <<pc, orig, term, subs, result>>

\* test_add over two literals: the value the test compares
TestAdd(f, g) ==
    Unwrap(GetValue(Node("Addition", Value(FromF64(f)), Value(FromF64(g)))))

DoTestAdd ==
    /\ calc = NoCalc
    /\ \E f \in NumFloats, g \in NumFloats :
          calc' = [op |-> "test_add", a |-> Irr(f), b |-> Irr(g), out |-> TestAdd(f, g)]
    /\ UNCHANGED <<pc, orig, term, subs, result>>

NumNext == DoAdd \/ DoMul \/ DoPow \/ DoInverse \/ DoFromF64 \/ DoTestAdd


NumSpec == Init /\ [][NumNext]_vars

(* -------------------------------------------------- properties of a term *)

\* the names of the Variable leaves reachable from the root
RECURSIVE Vars(_)
Vars(t) ==
    IF t.kind = "Variable" THEN {t.name}
    ELSE IF t.kind = "Value" THEN {}
    ELSE Vars(t.lhs) \cup Vars(t.rhs)

\* the fold of a term's operators over its leaves, with no bound check at any level
RECURSIVE Collapse(_)
Collapse(t) ==
    IF t.kind = "Value" THEN t.v
    ELSE IF t.kind = "Variable" THEN Panic("free variable")
    ELSE LET l == Collapse(t.lhs)
             r == Collapse(t.rhs)
         IN IF ~IsNumber(l) THEN l
            ELSE IF ~IsNumber(r) THEN r
            ELSE IF t.kind \in {"Addition", "Multiplication"} THEN NumAdd(l, r)
            ELSE IF t.kind = "Exponentation" THEN NumPow(l, r)
            ELSE LET inv == NumInverse(r) IN IF ~IsNumber(inv) THEN inv ELSE NumPow(l, inv)

\* r is t with every Variable leaf bound in b replaced by the Value leaf of its
\* binding, every other leaf, every node kind and the child order kept
RECURSIVE SameExcept(_, _, _)
SameExcept(t, r, b) ==
    IF t.kind = "Value" THEN r = t
    ELSE IF t.kind = "Variable"
         THEN IF b[t.name] # Unset THEN r = Value(b[t.name]) ELSE r = t
         ELSE /\ r.kind = t.kind
              /\ SameExcept(t.lhs, r.lhs, b)
              /\ SameExcept(t.rhs, r.rhs, b)

Only(name, value) == [n \in Names |-> IF n = name THEN value ELSE Unset]

UnwrapPanic == Panic("called Option::unwrap() on a None value")
VariablePanic == Panic("How did we get here? Variables don't have values.")

\* C1: get_value returns None exactly when has_value is false (never a panic for an
\* unbound term), and when has_value is true it returns the collapsed value of the
\* tree: the fold of the numeric operators over the leaves (a panic of a numeric
\* operator is that operator's, not an absent result).
C1_GetValueIffBound ==
    pc = "done" =>
        IF HasValue(term)
        THEN result # NoneV /\ result = Collapse(term)
        ELSE result = NoneV /\ Vars(term) # {}

C1_Witness ==
    /\ pc = "done" /\ Nodes(term) = MaxNodes /\ ~HasValue(term) /\ result = NoneV
    /\ term.lhs.kind \in Kinds /\ term.lhs.rhs.kind = "Variable"
    /\ term.rhs.kind = "Value"

\* C2: once every variable name of the built term has been substituted (in any
\* order, with any values), has_value is true and get_value is not None.
C2_AllSubstitutedIsBound ==
    (\A n \in Vars(orig) : subs[n] # Unset) =>
        /\ HasValue(term)
        /\ GetValue(term) # NoneV
        /\ (pc = "done" => result # NoneV)

C2_Witness ==
    /\ pc = "done"
    /\ Vars(orig) = Names
    /\ \A n \in Names : subs[n] # Unset
    /\ subs["x"] # subs["y"]
    /\ IsNumber(result)

\* C3: substitute(t, name, value) is t with every Variable leaf called name replaced
\* by Value(value) and everything else kept (leaves, node kinds, child order): for
\* the substitutions made so far on the built term, and for every next call; a
\* name that does not occur gives back an equal tree.
C3_SubstituteFrame ==
    /\ SameExcept(orig, term, subs)
    /\ pc # "done" =>
          \A name \in Names, value \in SubstValues :
             LET r == Substitute(term, name, value)
             IN /\ SameExcept(term, r, Only(name, value))
                /\ (name \notin Vars(term) => r = term)

C3_Witness ==
    /\ pc = "bind"
    /\ Vars(orig) = Names
    /\ subs["x"] # Unset /\ subs["y"] = Unset
    /\ Nodes(term) = MaxNodes
    /\ term # orig
    /\ Vars(term) = {"y"}

\* C4: has_value is true iff no Variable leaf is reachable from the root, for every
\* combination of node kinds.
C4_HasValueIffNoVariable ==
    /\ HasValue(term) <=> (Vars(term) = {})
    /\ HasValue(orig) <=> (Vars(orig) = {})

C4_Witness ==
    /\ Nodes(term) = MaxNodes
    /\ term.kind = "RootExtraction"
    /\ term.lhs.kind = "Value"
    /\ term.rhs.kind = "Multiplication"
    /\ term.rhs.lhs.kind = "Value"
    /\ term.rhs.rhs.kind = "Variable"
    /\ ~HasValue(term)

\* C9: a bound Multiplication(l, r) evaluates to get_value(l) + get_value(r), the
\* value of Addition(l, r), and not to the product.
C9_MultiplicationAdds ==
    (pc = "done" /\ term.kind = "Multiplication" /\ HasValue(term)) =>
        LET l == GetValue(term.lhs)
            r == GetValue(term.rhs)
            sum == Then2(l, r, "add")
            product == Then2(l, r, "mul")
        IN /\ result = sum
           /\ result = GetValue(Node("Addition", term.lhs, term.rhs))
           /\ (product # sum => result # product)

C9_Witness ==
    /\ pc = "done" /\ term.kind = "Multiplication" /\ HasValue(term)
    /\ IsNumber(result)
    /\ result # Then2(GetValue(term.lhs), GetValue(term.rhs), "mul")

\* C10: no get_value call reaches the Variable arm's panic, and no parent unwraps an
\* absent child, whatever the term.
C10_NoInternalPanic ==
    pc = "done" => result \notin {UnwrapPanic, VariablePanic}

C10_Witness ==
    /\ pc = "done" /\ Nodes(term) = MaxNodes
    /\ HasValue(term) /\ Vars(orig) # {}
    /\ IsNumber(result)

(* ------------------------------------------ properties of the numeric ops *)

RECURSIVE IntPow(_, _)
IntPow(x, k) == IF k = 0 THEN 1 ELSE x * IntPow(x, k - 1)

IsFraction(v) == v.tag = "Rational" /\ v.cls = "fin"
IsZero(v) == IsNumber(v) /\ v.cls = "fin" /\ v.n = 0

\* C5: Rational + Rational is the Rational whose fraction is exactly the reduced sum
\* (inside the tracked range of numerators and denominators); test_add's
\* Addition(Value(0.5.into()), Value(1.2.into())) evaluates to Rational(17/10),
\* which compares equal to Fraction::new(170, 100).
C5_RationalSumExact ==
    /\ (calc.op = "add" /\ IsFraction(calc.a) /\ IsFraction(calc.b)) =>
          /\ IsFraction(calc.out)
          /\ calc.out.d > 0
          /\ GCD(Abs(calc.out.n), calc.out.d) = 1
          /\ calc.out.n * (calc.a.d * calc.b.d)
               = (calc.a.n * calc.b.d + calc.b.n * calc.a.d) * calc.out.d
    /\ (calc.op = "test_add" /\ calc.a = Irr(Fin(1, 2)) /\ calc.b = Irr(Fin(6, 5))) =>
          /\ calc.out = Rat(17, 10)
          /\ NumEq(calc.out, RatioNew(170, 100))

C5_Witness ==
    /\ calc.op = "test_add" /\ calc.a = Irr(Fin(1, 2)) /\ calc.b = Irr(Fin(6, 5))
    /\ NumEq(calc.out, RatioNew(170, 100))

\* C6 as stated: a sum with an Irrational operand is Irrational, never Rational.
C6_SumWithIrrationalIsIrrational ==
    (calc.op = "add" /\ "Irrational" \in {calc.a.tag, calc.b.tag}) =>
        calc.out.tag \in {"Irrational", "Beyond"}

\* C6 amended: a sum with an Irrational operand is the float sum of the operands'
\* float conversions, converted back with From<f64>: Rational (the fraction
\* reconstructed from the sum) whenever the sum is finite and inside the i64 range,
\* Irrational only when the sum is infinite or NaN.
C6_SumWithIrrationalIsFromF64 ==
    (calc.op = "add" /\ "Irrational" \in {calc.a.tag, calc.b.tag}) =>
        LET sum == F64Add(ToF64(calc.a), ToF64(calc.b))
        IN /\ sum.cls \in {"inf", "ninf", "nan"} =>
                calc.out.tag = "Irrational" /\ FloatOf(calc.out) = sum
           /\ sum.cls \in {"fin", "wide"} =>
                calc.out.tag = "Rational" /\ RatioToF64(calc.out) = sum
           /\ sum.cls = "beyond" => calc.out = Beyond

C6_Witness ==
    /\ calc.op = "add"
    /\ calc.a = Irr(Fin(1, 2)) /\ calc.b = Rat(1, 2)
    /\ calc.out = Rat(1, 1)

\* C7: the reciprocal of a Number that is exactly zero is an error, never a value.
C7_InverseOfZeroIsError ==
    (calc.op = "inverse" /\ IsZero(calc.a)) => IsPanic(calc.out)

\* C8: a Rational base to a Rational exponent n/1: when n fits an i32 the result is
\* the Rational exactly equal to base^n (inside the tracked range; 0 to a negative
\* power has no value and panics on the division by zero); when n does not fit an
\* i32 the call panics.
C8_IntegerPower ==
    (calc.op = "pow" /\ IsFraction(calc.a) /\ calc.b.tag = "Rational" /\ calc.b.d = 1) =>
        IF calc.b.cls = "wide" THEN calc.out = Panic("is too powerful!")
        ELSE LET n == calc.b.n
                 k == Abs(n)
                 num == IF n >= 0 THEN Abs(calc.a.n) ELSE calc.a.d
                 den == IF n >= 0 THEN calc.a.d ELSE Abs(calc.a.n)
                 neg == calc.a.n < 0 /\ k % 2 = 1
             IN IF den = 0 THEN IsPanic(calc.out)
                ELSE IF IntPow(num, k) > TrackedMax \/ IntPow(den, k) > TrackedMax
                     THEN calc.out = Beyond
                     ELSE calc.out = Rat(IF neg THEN -IntPow(num, k) ELSE IntPow(num, k),
                                         IntPow(den, k))

C8_Witness ==
    /\ calc.op = "pow" /\ calc.a = Rat(2, 1) /\ calc.b = Rat(3, 1)
    /\ calc.out = Rat(8, 1)

====
